---- MODULE Spec2Model ----
(***************************************************************************)
(* Model of the f4pga staleness cache (src/f4pga/cache.py, SymbiCache) and *)
(* of the module invocation context (src/f4pga/module.py, ModuleContext).  *)
(*                                                                         *)
(* Python values are modelled as tagged records [t |-> type, v |-> value], *)
(* Python dicts as functions whose DOMAIN is the set of keys.              *)
(***************************************************************************)
EXTENDS Integers, Sequences, FiniteSets, TLC

VARIABLES
    alive,      \* a SymbiCache object exists (its constructor returned)
    hashes,     \* SymbiCache.hashes: a dict of dicts, or a str after a load
    status,     \* SymbiCache.status: path -> consumer -> 'changed' | 'same'
    cachefile,  \* the file at SymbiCache.cachefile_path
    seen,       \* history: what the pair's latest returning update found
    last,       \* history: the last call, its arguments and its outcome
    ctx,        \* the latest ModuleContext(module, config, ...) and its inputs
    reply       \* the last call on a context or a module, and what it gave

cacheVars == <<alive, hashes, status, cachefile, seen, last>>
vars == <<alive, hashes, status, cachefile, seen, last, ctx, reply>>

-----------------------------------------------------------------------------
(* The sample universe the calls draw their arguments from.                *)

\* The (path, consumer) pairs of the sample flow: stage "synth" consumes the
\* paths "p" and "q", and "p" is also requested as a target ("__target" is
\* the consumer update's docstring reserves for that).
Pairs == { <<"p", "synth">>, <<"p", "__target">>, <<"q", "synth">> }
Paths == {pc[1] : pc \in Pairs}
Consumers == {pc[2] : pc \in Pairs}

\* The pairs of the runs that also save, load and rebuild the cache.
PersistPairs == { <<"p", "synth">>, <<"p", "__target">> }

\* File contents are byte strings.  The second and the third have the same
\* Adler-32 checksum (458755); the first has another one (131074).
Contents == { <<1>>, <<0, 2, 0>>, <<1, 0, 1>> }

\* What Path(path) is when update looks at it.  A symlink to a file is a
\* "file", a symlink to a directory a "dir", a symlink to nothing "dangling".
Missing  == [kind |-> "missing",  data |-> << >>]
Dir      == [kind |-> "dir",      data |-> << >>]
Dangling == [kind |-> "dangling", data |-> << >>]
File(d)  == [kind |-> "file",     data |-> d]
\* A directory with one file of content d beneath it (Dir is the empty one).
DirOf(d) == [kind |-> "dir",      data |-> d]
FsObjects == {Missing, Dir, DirOf(<<1>>), Dangling}
             \cup {File(d) : d \in Contents}

Unseen == [kind |-> "unseen", data |-> << >>]

-----------------------------------------------------------------------------
(* Python values.                                                          *)

None     == [t |-> "None", v |-> 0]
IntV(n)  == [t |-> "int", v |-> n]
StrV(n)  == [t |-> "str", v |-> n]      \* str(n): the decimal text of n

\* bool(x) for None, an int and a decimal string (never empty).
Truthy(x) == CASE x.t = "None" -> FALSE
               [] x.t = "int"  -> x.v # 0
               [] OTHER        -> TRUE

EmptyDict == [k \in {} |-> None]
DictPop(d, k)    == [x \in DOMAIN d \ {k} |-> d[x]]
DictPut(d, k, v) == [x \in DOMAIN d \cup {k} |-> IF x = k THEN v ELSE d[x]]

\* zlib.adler32 of a byte string.
RECURSIVE AdlerA(_), AdlerB(_)
AdlerA(data) == IF data = << >> THEN 1
                ELSE (AdlerA(SubSeq(data, 1, Len(data) - 1)) + data[Len(data)]) % 65521
AdlerB(data) == IF data = << >> THEN 0
                ELSE (AdlerB(SubSeq(data, 1, Len(data) - 1)) + AdlerA(data)) % 65521
Adler32(data) == AdlerB(data) * 65536 + AdlerA(data)

-----------------------------------------------------------------------------
(* SymbiCache                                                              *)

\* self.hashes as a dict, and as the str that load() makes of a saved file.
DictV(d)   == [t |-> "dict", v |-> d]
ReprV(d)   == [t |-> "str",  v |-> d]   \* the text str(d) of the dict d

\* The cache file: absent, not JSON, not openable, or a JSON document
\* (held as the Python value it decodes to).
FileMissing    == [t |-> "missing",    doc |-> None]
FileCorrupt    == [t |-> "corrupt",    doc |-> None]
FileUnreadable == [t |-> "unreadable", doc |-> None]
FileJson(x)    == [t |-> "json",       doc |-> x]

\* str(self.hashes): the repr of a dict, a str unchanged.
PyStr(h) == ReprV(h.v)

\* The lookup with the path as the key of both dicts.
HashGet_WrongKey(d, path, consumer) ==
    IF path \in DOMAIN d /\ path \in DOMAIN d[path]
    THEN d[path][path] ELSE None

\* d.get(path) and then .get(consumer), None when either is absent.
HashGet(d, path, consumer) ==
    IF path \in DOMAIN d /\ consumer \in DOMAIN d[path]
    THEN d[path][consumer] ELSE None

\* get_status keyed by the path alone: the status of any of its consumers.
get_status_AnyConsumer(s, path, consumer) ==
    IF path \notin DOMAIN s \/ DOMAIN s[path] = {} THEN "untracked"
    ELSE s[path][CHOOSE c \in DOMAIN s[path] : TRUE]

\* get_status on the status table s.
get_status(s, path, consumer) ==
    IF path \notin DOMAIN s \/ DOMAIN s[path] = {} THEN "untracked"
    ELSE IF consumer \notin DOMAIN s[path] THEN "untracked"
    ELSE s[path][consumer]

\* _try_pop_consumer without its status half: only the hashes are popped.
PopConsumer_HashesOnly(d, path, consumer, strings) ==
    IF /\ ~strings
       /\ path \in DOMAIN d
       /\ DOMAIN d[path] # {}
       /\ consumer \in DOMAIN d[path]
       /\ Truthy(d[path][consumer])
    THEN LET inner == DictPop(d[path], consumer)
         IN  IF DOMAIN inner = {} THEN DictPop(d, path)
             ELSE DictPut(d, path, inner)
    ELSE d

\* _try_pop_consumer without the pop of a path whose last consumer went.
PopConsumer_KeepEmpty(d, path, consumer, strings) ==
    IF /\ path \in DOMAIN d
       /\ DOMAIN d[path] # {}
       /\ consumer \in DOMAIN d[path]
       /\ (strings \/ Truthy(d[path][consumer]))
    THEN DictPut(d, path, DictPop(d[path], consumer))
    ELSE d

\* One half of _try_pop_consumer on a dict of dicts: pop the consumer when
\* both lookups are truthy, then the path when no consumer is left.
\* `strings` says the inner values are Python strings (the status table).
PopConsumer(d, path, consumer, strings) ==
    IF /\ path \in DOMAIN d
       /\ DOMAIN d[path] # {}
       /\ consumer \in DOMAIN d[path]
       /\ (strings \/ Truthy(d[path][consumer]))
    THEN LET inner == DictPop(d[path], consumer)
         IN  IF DOMAIN inner = {} THEN DictPop(d, path)
             ELSE DictPut(d, path, inner)
    ELSE d

\* The push without its `if not ...get(path)` guard: the path's dict is
\* always started afresh.
PushConsumer_Reset(d, path, consumer, value) ==
    DictPut(d, path, DictPut(EmptyDict, consumer, value))

\* _try_push_consumer_hash / _try_push_consumer_status.
PushConsumer(d, path, consumer, value) ==
    LET inner == IF path \notin DOMAIN d \/ DOMAIN d[path] = {}
                 THEN EmptyDict ELSE d[path]
    IN  DictPut(d, path, DictPut(inner, consumer, value))

\* The fingerprint of a file read at its end: adler32 of no bytes.
Fingerprint_NoContent(obj) == IF obj.kind = "dir" THEN IntV(0)
                              ELSE StrV(Adler32(<< >>))

\* The fingerprint of a directory taken from what lies beneath it.
Fingerprint_DirContent(obj) == IF obj.kind = "dir" THEN IntV(Len(obj.data))
                               ELSE StrV(Adler32(obj.data))

\* The fingerprint update computes: 0 for a directory, str(adler32) else.
Fingerprint(obj) == IF obj.kind = "dir" THEN IntV(0)
                    ELSE StrV(Adler32(obj.data))

NoSeen == [pc \in Pairs |-> Unseen]

\* A call: its arguments, what the path was (obj), what the pair's previous
\* returning update had found there (prev), and what the call returned.
Call(op, path, consumer, obj, prev, ret) ==
    [op |-> op, path |-> path, consumer |-> consumer, obj |-> obj,
     prev |-> prev, ret |-> ret]

\* The body of update(path, consumer) while the path is `obj`: what it
\* returns or raises, and the two tables as it leaves them.
UpdateOutcome(h, s, path, consumer, obj) ==
    IF obj.kind = "missing" THEN
        \* _try_pop_consumer: the status half, then self.hashes.get
        IF h.t = "dict"
        THEN [ret |-> "True",
              hashes |-> DictV(PopConsumer(h.v, path, consumer, FALSE)),
              status |-> PopConsumer(s, path, consumer, TRUE)]
        ELSE [ret |-> "AttributeError",
              hashes |-> h,
              status |-> PopConsumer(s, path, consumer, TRUE)]
    ELSE IF obj.kind = "dangling" THEN
        \* is_symlink() holds, open('rb') finds no file
        [ret |-> "FileNotFoundError", hashes |-> h, status |-> s]
    ELSE IF h.t # "dict" THEN
        \* self.hashes.get on a str
        [ret |-> "AttributeError", hashes |-> h, status |-> s]
    ELSE IF Fingerprint(obj) # HashGet(h.v, path, consumer) THEN
        [ret |-> "True",
         hashes |-> DictV(PushConsumer(h.v, path, consumer, Fingerprint(obj))),
         status |-> PushConsumer(s, path, consumer, "changed")]
    ELSE
        [ret |-> "False",
         hashes |-> h,
         status |-> PushConsumer(s, path, consumer, "same")]

Returned(ret) == ret \in {"True", "False"}

\* A call update(path, consumer) for one of `pairs`, the path being any of
\* the sample objects at that moment.
UpdateOver(pairs) ==
    \E pc \in pairs, obj \in FsObjects :
        \E r \in {UpdateOutcome(hashes, status, pc[1], pc[2], obj)} :
            /\ alive
            /\ hashes' = r.hashes
            /\ status' = r.status
            /\ seen' = IF Returned(r.ret) THEN [seen EXCEPT ![pc] = obj]
                       ELSE seen
            /\ last' = Call("update", pc[1], pc[2], obj, seen[pc], r.ret)
            /\ UNCHANGED <<alive, cachefile, ctx, reply>>

Update == UpdateOver(Pairs)

\* get_status with `self.status.setdefault(path, {})` for its first lookup.
GetStatusOver_Setdefault(pairs) ==
    \E pc \in pairs :
        /\ alive
        /\ status' = IF pc[1] \in DOMAIN status THEN status
                     ELSE DictPut(status, pc[1], EmptyDict)
        /\ last' = Call("get_status", pc[1], pc[2], Unseen, seen[pc],
                        get_status(status, pc[1], pc[2]))
        /\ UNCHANGED <<alive, hashes, cachefile, seen, ctx, reply>>

\* A call get_status(path, consumer).
GetStatusOver(pairs) ==
    \E pc \in pairs :
        /\ alive
        /\ last' = Call("get_status", pc[1], pc[2], Unseen, seen[pc],
                        get_status(status, pc[1], pc[2]))
        /\ UNCHANGED <<alive, hashes, status, cachefile, seen, ctx, reply>>

GetStatus == GetStatusOver(Pairs)

\* What load() leaves in self.hashes, or a raise.
LoadResult(f) ==
    CASE f.t = "json"    -> [raised |-> FALSE, hashes |-> f.doc]
      [] f.t = "corrupt" -> [raised |-> FALSE, hashes |-> DictV(EmptyDict)]
      [] f.t = "missing" -> [raised |-> FALSE, hashes |-> DictV(EmptyDict)]
      [] OTHER           -> [raised |-> TRUE,  hashes |-> DictV(EmptyDict)]

\* load() on the live object.
Load ==
    /\ alive
    /\ LET r == LoadResult(cachefile)
       IN  IF r.raised
           THEN /\ UNCHANGED hashes
                /\ last' = Call("load", "", "", Unseen, Unseen, "OSError")
           ELSE /\ hashes' = r.hashes
                /\ last' = Call("load", "", "", Unseen, Unseen, "None")
    /\ UNCHANGED <<alive, status, cachefile, seen, ctx, reply>>

\* SymbiCache(cachefile_path): a new object replaces the old one.
Construct ==
    /\ LET r == LoadResult(cachefile)
       IN  /\ alive' = ~r.raised
           /\ hashes' = r.hashes
           /\ last' = Call("construct", "", "", Unseen, Unseen,
                           IF r.raised THEN "OSError" ELSE "None")
    /\ status' = EmptyDict
    /\ seen' = NoSeen
    /\ UNCHANGED <<cachefile, ctx, reply>>

\* save(): json_dump(str(self.hashes)); open('w') raises on a file that
\* cannot be opened.
Save ==
    /\ alive
    /\ IF cachefile.t = "unreadable"
       THEN /\ UNCHANGED cachefile
            /\ last' = Call("save", "", "", Unseen, Unseen, "OSError")
       ELSE /\ cachefile' = FileJson(PyStr(hashes))
            /\ last' = Call("save", "", "", Unseen, Unseen, "None")
    /\ UNCHANGED <<alive, hashes, status, seen, ctx, reply>>

\* The environment removes, garbles or locks the cache file.
Tamper ==
    /\ \E f \in {FileMissing, FileCorrupt, FileUnreadable} :
           /\ cachefile # f
           /\ cachefile' = f
    /\ last' = Call("tamper", "", "", Unseen, Unseen, "None")
    /\ UNCHANGED <<alive, hashes, status, seen, ctx, reply>>

-----------------------------------------------------------------------------
(* ModuleContext                                                           *)

\* A declared name is its characters, the qualifier being the last one:
\* "b?" is <<"b", "?">>.  A bare name is the characters without it.
\* decompose_depname(name) -> (bare name, 'req' | 'maybe' | 'demand')
decompose_depname(name) ==
    LET specchar == name[Len(name)]
        spec == CASE specchar = "?" -> "maybe"
                  [] specchar = "!" -> "demand"
                  [] OTHER          -> "req"
    IN  [name |-> IF spec # "req" THEN SubSeq(name, 1, Len(name) - 1) ELSE name,
         spec |-> spec]

\* The declared names of a list, decoded.
Declared(deps) == {decompose_depname(deps[i]) : i \in 1..Len(deps)}

\* Values of the raw configuration, and what the resolution scope makes of
\* them; resolving None or a resolved value gives it back.
Raw(x)      == [t |-> "raw", v |-> x]
Resolved(x) == [t |-> "resolved", v |-> x]
resolve(value) == IF value.t = "raw" THEN Resolved(value.v) ELSE value
resolve_dict(d) == [k \in DOMAIN d |-> resolve(d[k])]

DictGet(d, k) == IF k \in DOMAIN d THEN d[k] ELSE None

\* The update that keeps the entries the dict already has.
DictUpdate_KeepOld(d, e) ==
    [k \in DOMAIN d \cup DOMAIN e |-> IF k \in DOMAIN d THEN d[k] ELSE e[k]]

\* outputs.update(produces_resolved)
DictUpdate(d, e) ==
    [k \in DOMAIN d \cup DOMAIN e |-> IF k \in DOMAIN e THEN e[k] ELSE d[k]]

\* What `fatal(-1, f'Dependency ...')` does in module.py, which neither
\* defines nor imports `fatal`: the name lookup raises NameError before the
\* message is built.
\* The error names the things its message mentions: NameError's message is
\* "name 'fatal' is not defined", with neither argument in it.
FatalCall(dep, module_name) ==
    [type |-> "NameError", module_name |-> "", dep |-> << >>]

NoError == [type |-> "none", module_name |-> "", dep |-> << >>]

\* _getreqmaybe raising for every absent name, whatever its qualifier.
RECURSIVE _getreqmaybe_AllRequired(_, _, _, _)
_getreqmaybe_AllRequired(obj, deps, deps_cfg, module_name) ==
    IF deps = << >> THEN [raised |-> FALSE, obj |-> obj, error |-> NoError]
    ELSE LET d == decompose_depname(Head(deps))
             value == DictGet(deps_cfg, d.name)
         IN  IF value = None
             THEN [raised |-> TRUE, obj |-> obj,
                   error |-> FatalCall(d.name, module_name)]
             ELSE _getreqmaybe_AllRequired(
                      DictPut(obj, d.name, resolve(value)),
                      Tail(deps), deps_cfg, module_name)

\* _getreqmaybe skipping the names that have no value (a `continue` before
\* the setattr).
RECURSIVE _getreqmaybe_SkipAbsent(_, _, _, _)
_getreqmaybe_SkipAbsent(obj, deps, deps_cfg, module_name) ==
    IF deps = << >> THEN [raised |-> FALSE, obj |-> obj, error |-> NoError]
    ELSE LET d == decompose_depname(Head(deps))
             value == DictGet(deps_cfg, d.name)
         IN  IF value = None /\ d.spec = "req"
             THEN [raised |-> TRUE, obj |-> obj,
                   error |-> FatalCall(d.name, module_name)]
             ELSE _getreqmaybe_SkipAbsent(
                      IF value = None THEN obj
                      ELSE DictPut(obj, d.name, resolve(value)),
                      Tail(deps), deps_cfg, module_name)

\* _getreqmaybe that also binds what deps_cfg has beyond the declared names.
RECURSIVE _getreqmaybe_KeepGiven(_, _, _, _)
_getreqmaybe_KeepGiven(obj, deps, deps_cfg, module_name) ==
    IF deps = << >>
    THEN [raised |-> FALSE, obj |-> DictUpdate(resolve_dict(deps_cfg), obj),
          error |-> NoError]
    ELSE LET d == decompose_depname(Head(deps))
             value == DictGet(deps_cfg, d.name)
         IN  IF value = None /\ d.spec = "req"
             THEN [raised |-> TRUE, obj |-> obj,
                   error |-> FatalCall(d.name, module_name)]
             ELSE _getreqmaybe_KeepGiven(DictPut(obj, d.name, resolve(value)),
                                         Tail(deps), deps_cfg, module_name)

\* _getreqmaybe(obj, deps, deps_cfg): the namespace obj after the loop, or
\* after the part of it that ran before the raise.
RECURSIVE _getreqmaybe(_, _, _, _)
_getreqmaybe(obj, deps, deps_cfg, module_name) ==
    IF deps = << >> THEN [raised |-> FALSE, obj |-> obj, error |-> NoError]
    ELSE LET d == decompose_depname(Head(deps))
             value == DictGet(deps_cfg, d.name)
         IN  IF value = None /\ d.spec = "req"
             THEN [raised |-> TRUE, obj |-> obj,
                   error |-> FatalCall(d.name, module_name)]
             ELSE _getreqmaybe(DictPut(obj, d.name, resolve(value)),
                               Tail(deps), deps_cfg, module_name)

\* ModuleContext.__init__(module, config, r_env, share, bin), map_io(self)
\* returning `mapped`.  `map_io` tells whether map_io was called.
ModuleContextInit(module, config, mapped) ==
    LET t == _getreqmaybe(EmptyDict, module.takes, config.takes, module.name)
        v == _getreqmaybe(EmptyDict, module.values, config.values, module.name)
        produces_resolved == resolve_dict(config.produces)
        outputs == DictUpdate(mapped, produces_resolved)
        o == _getreqmaybe(EmptyDict, module.produces, outputs, module.name)
        base == [module |-> module, config |-> config, mapped |-> mapped,
                 built |-> FALSE, error |-> NoError, map_io |-> FALSE,
                 takes |-> EmptyDict, values |-> EmptyDict,
                 produces |-> EmptyDict, outputs |-> EmptyDict]
    IN  IF t.raised
        THEN [base EXCEPT !.error = t.error, !.takes = t.obj]
        ELSE IF v.raised
        THEN [base EXCEPT !.error = v.error, !.takes = t.obj, !.values = v.obj]
        ELSE IF o.raised
        THEN [base EXCEPT !.error = o.error, !.takes = t.obj, !.values = v.obj,
                          !.produces = produces_resolved, !.map_io = TRUE,
                          !.outputs = o.obj]
        ELSE [base EXCEPT !.built = TRUE, !.takes = t.obj, !.values = v.obj,
                          !.produces = produces_resolved, !.map_io = TRUE,
                          !.outputs = o.obj]

\* The sample module contracts.
Synth == [name     |-> "synth",
          takes    |-> << <<"a">>, <<"b", "?">> >>,
          values   |-> << <<"v">>, <<"w", "?">> >>,
          produces |-> << <<"x">>, <<"y", "?">>, <<"z", "!">> >>]
Pack  == [name     |-> "pack",
          takes    |-> << <<"b", "?">>, <<"a">> >>,
          values   |-> << >>,
          produces |-> << <<"z", "!">>, <<"x">> >>]
Modules == {Synth, Pack}

\* The sample raw configurations and map_io results: dicts over bare names.
Dicts(keys, vals) == UNION {[K -> vals] : K \in SUBSET keys}
TakesCfgs    == Dicts({<<"a">>, <<"b">>}, {Raw("src"), None})
ValuesCfgs   == Dicts({<<"v">>, <<"w">>}, {Raw("val")})
ProducesCfgs == Dicts({<<"x">>, <<"y">>, <<"z">>, <<"u">>}, {Raw("explicit")})
MapIoResults == Dicts({<<"x">>, <<"y">>, <<"z">>}, {Raw("default")})

\* No context has been constructed yet.
NoContext ==
    [module |-> [name |-> "", takes |-> << >>, values |-> << >>,
                 produces |-> << >>],
     config |-> [takes |-> EmptyDict, values |-> EmptyDict,
                 produces |-> EmptyDict],
     mapped |-> EmptyDict, built |-> FALSE, error |-> NoError,
     map_io |-> FALSE, takes |-> EmptyDict, values |-> EmptyDict,
     produces |-> EmptyDict, outputs |-> EmptyDict]

\* The context of one stage execution is constructed (once: a context is
\* created fresh per execution).
BuildContext ==
    /\ ctx = NoContext
    /\ \E module \in Modules, tk \in TakesCfgs, vl \in ValuesCfgs,
          pr \in ProducesCfgs, mapped \in MapIoResults :
           ctx' = ModuleContextInit(
                      module, [takes |-> tk, values |-> vl, produces |-> pr],
                      mapped)
    /\ UNCHANGED <<cacheVars, reply>>

\* A call on a context or a module: its argument and what it returned or
\* raised.
Reply(op, arg, ret) == [op |-> op, arg |-> arg, ret |-> ret]
NoReply == Reply("none", << >>, "None")

\* getattr(namespace, name): the attribute, or AttributeError.
\* is_output_explicit(name) on the namespace ctx.produces.
is_output_explicit(produces, name) ==
    IF name \notin DOMAIN produces THEN "AttributeError"
    ELSE IF produces[name] # None THEN "True"
    ELSE "False"

\* A module asks its context whether one of its declared outputs is explicit.
IsOutputExplicit ==
    /\ ctx.built
    /\ \E d \in Declared(ctx.module.produces) :
           reply' = Reply("is_output_explicit", d.name,
                          is_output_explicit(ctx.produces, d.name))
    /\ UNCHANGED <<cacheVars, ctx>>

\* prod.replace('?', '').replace('!', ''): every qualifier character goes,
\* wherever it stands.
StripQualifiers(prod) == SelectSeq(prod, LAMBDA c : c \notin {"?", "!"})

\* A module object with (has_meta) or without the attribute prod_meta.
WithMeta(module, has_meta, prod_meta) ==
    [name |-> module.name, takes |-> module.takes, values |-> module.values,
     produces |-> module.produces, has_meta |-> has_meta,
     prod_meta |-> prod_meta]

\* The sample descriptions; the empty one is a documented output whose text
\* is ''.
Descriptions == {"netlist", "log", ""}
MetaModules ==
    {WithMeta(m, TRUE, pm) :
         m \in Modules,
         pm \in Dicts({<<"x">>, <<"y">>, <<"z">>}, Descriptions)}
    \cup {WithMeta(m, FALSE, EmptyDict) : m \in Modules}

\* get_mod_metadata(module): the loop over module.produces, in order; a later
\* output of the same bare name overwrites the earlier entry.
RECURSIVE get_mod_metadata_loop(_, _, _)
get_mod_metadata_loop(meta, module, produces) ==
    IF produces = << >> THEN meta
    ELSE LET prod == StripQualifiers(Head(produces))
             prod_meta == IF prod \in DOMAIN module.prod_meta
                          THEN module.prod_meta[prod] ELSE ""
         IN  get_mod_metadata_loop(
                 DictPut(meta, prod,
                         IF ~module.has_meta THEN "<no descritption>"
                         ELSE IF prod_meta # "" THEN prod_meta
                         ELSE "<no description>"),
                 module, Tail(produces))

get_mod_metadata(module) ==
    get_mod_metadata_loop(EmptyDict, module, module.produces)

\* The descriptions of one module are looked up.
GetModMetadata ==
    /\ reply = NoReply
    /\ \E module \in MetaModules :
           reply' = Reply("get_mod_metadata", module, get_mod_metadata(module))
    /\ UNCHANGED <<cacheVars, ctx>>

\* _make_io_dict(io, metas): the bare name and its dict, which has "meta"
\* when metas is a dict that has the name.
_make_io_dict(io, metas) ==
    LET dep == decompose_depname(io)
        d == DictPut(EmptyDict, "qualifier", dep.spec)
    IN  [name |-> dep.name,
         d |-> IF metas # None /\ dep.name \in DOMAIN metas.v
               THEN DictPut(d, "meta", metas.v[dep.name])
               ELSE d]

\* _make_io_dict_dict(ios, metas): dict(...) of the pairs in order, a later
\* pair of the same name replacing the earlier one.
RECURSIVE _make_io_dict_dict(_, _)
_make_io_dict_dict(ios, metas) ==
    IF ios = << >> THEN EmptyDict
    ELSE LET e == _make_io_dict(ios[Len(ios)], metas)
         IN  DictPut(_make_io_dict_dict(SubSeq(ios, 1, Len(ios) - 1), metas),
                     e.name, e.d)

\* _get_module_info_dict(module)
_get_module_info_dict(module) ==
    [takes    |-> _make_io_dict_dict(module.takes, None),
     produces |-> _make_io_dict_dict(
                      module.produces,
                      IF module.has_meta THEN DictV(module.prod_meta)
                      ELSE None),
     values   |-> _make_io_dict_dict(module.produces, None)]

\* The inspector describes one module.
GetModuleInfoDict ==
    /\ reply = NoReply
    /\ \E module \in MetaModules :
           reply' = Reply("_get_module_info_dict", module,
                          _get_module_info_dict(module))
    /\ UNCHANGED <<cacheVars, ctx>>

-----------------------------------------------------------------------------
Init ==
    /\ alive = TRUE
    /\ hashes = DictV(EmptyDict)
    /\ status = EmptyDict
    /\ cachefile = FileMissing
    /\ seen = NoSeen
    /\ last = Call("construct", "", "", Unseen, Unseen, "None")
    /\ ctx = NoContext
    /\ reply = NoReply

\* One cache object and the calls update and get_status on it.
Next == \/ Update
        \/ GetStatus

Spec == Init /\ [][Next]_vars

\* The cache with its file: save, load, a new object, a damaged file.
PersistUpdate == UpdateOver(PersistPairs)
PersistGetStatus == GetStatusOver(PersistPairs)

PersistNext == \/ PersistUpdate
               \/ PersistGetStatus
               \/ Save
               \/ Load
               \/ Construct
               \/ Tamper

SpecPersist == Init /\ [][PersistNext]_vars

\* The construction of invocation contexts.
ContextNext == \/ BuildContext
               \/ IsOutputExplicit

SpecContext == Init /\ [][ContextNext]_vars

\* The lookup of output descriptions.
MetadataNext == GetModMetadata

SpecMetadata == Init /\ [][MetadataNext]_vars

\* The inspector's module-information dictionary.
InspectorNext == GetModuleInfoDict

SpecInspector == Init /\ [][InspectorNext]_vars

-----------------------------------------------------------------------------
(* Properties of the staleness cache.                                      *)

LastPair == <<last.path, last.consumer>>
HasHash(h, pc)   == h.t = "dict" /\ HashGet(h.v, pc[1], pc[2]) # None
HasStatus(s, pc) == pc[1] \in DOMAIN s /\ pc[2] \in DOMAIN s[pc[1]]

\* The file is what save() writes of the table now in memory.
FileIsSaved == cachefile = FileJson(PyStr(hashes))

\* C1: save() followed by load() or by a new SymbiCache on the same file
\* gives back the table: the same fingerprints and the same statuses, in a
\* table update can work on (a dict).
C1_SaveLoadRoundTrip ==
    [][(/\ alive /\ hashes.t = "dict" /\ FileIsSaved
        /\ last'.op \in {"load", "construct"})
       => (/\ alive'
           /\ hashes' = hashes
           /\ status' = status)]_vars

\* C2: update of a pair whose path is missing returns True and leaves the
\* pair in neither table, whatever the path was when last fingerprinted.
C2_MissingDropsEntry ==
    (last.op = "update" /\ last.obj = Missing)
    => (/\ last.ret = "True"
        /\ ~HasHash(hashes, LastPair)
        /\ ~HasStatus(status, LastPair))

\* Every consumer of the path that updated it found it missing at its
\* latest update, and at least one did.
AllConsumersDropped(path) ==
    /\ \E pc \in Pairs : pc[1] = path /\ seen[pc] = Missing
    /\ \A pc \in Pairs : pc[1] = path => seen[pc] \in {Missing, Unseen}

\* C3: a path all of whose consumers were dropped is not in the table that
\* save() would persist.
C3_NoDanglingEntries ==
    \A path \in Paths :
        AllConsumersDropped(path) => path \notin DOMAIN PyStr(hashes).v

\* The last call was an update that found a file / an existing file or
\* directory, the pair's previous update having found `last.prev`.
UpdatedFile == last.op = "update" /\ last.obj.kind = "file"
LastStatus  == get_status(status, last.path, last.consumer)

\* C4: an update that finds the file content the pair's previous update
\* found returns False and records 'same', whatever other pairs did between.
C4_UnchangedFileIsSame ==
    (UpdatedFile /\ last.prev = last.obj)
    => (last.ret = "False" /\ LastStatus = "same")

C4_Witness ==
    /\ UpdatedFile /\ last.prev = last.obj /\ last.ret = "False"
    /\ \E pc \in Pairs : /\ pc # LastPair /\ pc[1] = last.path
                         /\ seen[pc].kind = "file" /\ seen[pc] # last.obj
    /\ \E pc \in Pairs : pc[1] # last.path /\ seen[pc] # Unseen

StoredNewFingerprint ==
    /\ last.ret = "True"
    /\ LastStatus = "changed"
    /\ HashGet(hashes.v, last.path, last.consumer) = StrV(Adler32(last.obj.data))

\* C5 as stated: an update that finds file content other than the content
\* the pair's previous update found returns True, records 'changed' and
\* stores the fingerprint of the new content.
C5_ChangedFileIsChanged ==
    (UpdatedFile /\ last.prev.kind = "file" /\ last.prev.data # last.obj.data)
    => StoredNewFingerprint

\* C5 amended: the same, for content whose Adler-32 checksum is other than
\* the checksum of the content the pair's previous update found.
C5_ChangedChecksumIsChanged ==
    (/\ UpdatedFile /\ last.prev.kind = "file"
     /\ Adler32(last.prev.data) # Adler32(last.obj.data))
    => StoredNewFingerprint

C5_Witness ==
    /\ UpdatedFile /\ last.prev.kind = "file"
    /\ Adler32(last.prev.data) # Adler32(last.obj.data)
    /\ StoredNewFingerprint

\* A pair whose previous update found what is there now gets False.
UpToDateGetsFalse ==
    (/\ last.op = "update" /\ last.obj.kind \in {"file", "dir"}
     /\ last.prev = last.obj)
    => last.ret = "False"

\* C6: the fingerprint and the status of a pair change only in an update
\* of that very pair, and a pair that has observed the current content gets
\* False at its next update.
C6_ConsumersIndependent ==
    [][/\ \A pc \in Pairs :
             (\/ HashGet(hashes'.v, pc[1], pc[2]) # HashGet(hashes.v, pc[1], pc[2])
              \/ get_status(status', pc[1], pc[2]) # get_status(status, pc[1], pc[2]))
             => (last'.op = "update" /\ <<last'.path, last'.consumer>> = pc)
       /\ UpToDateGetsFalse']_vars

C6_Witness ==
    /\ UpdatedFile /\ last.ret = "True" /\ last.prev.kind = "file"
    /\ \E pc \in Pairs : /\ pc # LastPair /\ pc[1] = last.path
                         /\ get_status(status, pc[1], pc[2]) = "same"
                         /\ seen[pc].kind = "file" /\ seen[pc] # last.obj

\* C7: get_status of a pair that no update has been made for returns
\* 'untracked', whatever was updated for other pairs.
C7_UntrackedBeforeUpdate ==
    /\ \A pc \in Pairs :
           seen[pc] = Unseen => get_status(status, pc[1], pc[2]) = "untracked"
    /\ (last.op = "get_status" /\ last.prev = Unseen) => last.ret = "untracked"

C7_Witness ==
    /\ last.op = "get_status" /\ last.prev = Unseen /\ last.ret = "untracked"
    /\ \E pc \in Pairs : /\ pc[1] = last.path /\ pc[2] # last.consumer
                         /\ HasStatus(status, pc)
    /\ \E pc \in Pairs : /\ pc[1] # last.path /\ pc[2] = last.consumer
                         /\ HasStatus(status, pc)

\* C8: load() on a missing, unreadable or malformed file does not fail and
\* leaves an empty table in the cache.
C8_LoadNeverFails ==
    (/\ last.op \in {"load", "construct"}
     /\ cachefile.t \in {"missing", "unreadable", "corrupt"})
    => (/\ last.ret = "None"
        /\ alive
        /\ hashes = DictV(EmptyDict))

-----------------------------------------------------------------------------
(* Properties of the invocation context.                                   *)

\* The bare names a list declares 'req' that are no key of the dict.
RequiredAbsent(deps, deps_cfg) ==
    {d.name : d \in {e \in Declared(deps) :
                        e.spec = "req" /\ e.name \notin DOMAIN deps_cfg}}

\* Every 'req' name of the list has a value other than None in the dict.
RequiredGiven(deps, deps_cfg) ==
    \A d \in Declared(deps) : d.spec = "req" => DictGet(deps_cfg, d.name) # None

\* The output is in neither config['produces'] nor the result of map_io.
OutputAbsent(name) ==
    name \notin DOMAIN ctx.config.produces /\ name \notin DOMAIN ctx.mapped

\* C9: with a required input or value absent from the raw configuration,
\* construction aborts with an error that names the stage and the missing
\* dependency, map_io is not called and no output is bound.
C9_MissingRequiredInputFailsFast ==
    LET missing == RequiredAbsent(ctx.module.takes, ctx.config.takes)
                   \cup RequiredAbsent(ctx.module.values, ctx.config.values)
    IN  (ctx # NoContext /\ missing # {})
        => (/\ ~ctx.built
            /\ ctx.error.module_name = ctx.module.name
            /\ ctx.error.dep \in missing
            /\ ~ctx.map_io
            /\ ctx.produces = EmptyDict
            /\ ctx.outputs = EmptyDict)

\* C10: construction fails when a 'req' output is in neither mapping, and
\* does not fail for the 'maybe' and 'demand' outputs that are in neither:
\* with the required inputs and values given it succeeds when every output
\* in neither mapping is 'maybe' or 'demand'.
C10_RequiredOutputEnforced ==
    ctx # NoContext
    => (/\ (\E d \in Declared(ctx.module.produces) :
                d.spec = "req" /\ OutputAbsent(d.name))
           => ~ctx.built
        /\ (/\ RequiredGiven(ctx.module.takes, ctx.config.takes)
            /\ RequiredGiven(ctx.module.values, ctx.config.values)
            /\ \A d \in Declared(ctx.module.produces) :
                   OutputAbsent(d.name) => d.spec \in {"maybe", "demand"})
           => ctx.built)

C10_Witness ==
    /\ ctx.built
    /\ \E d \in Declared(ctx.module.produces) :
           d.spec = "maybe" /\ OutputAbsent(d.name)
    /\ \E d \in Declared(ctx.module.produces) :
           d.spec = "demand" /\ OutputAbsent(d.name)

\* The failing half of C10 happens: map_io was called and a 'req' output
\* is in neither mapping.
C10_FailureReached ==
    /\ ~ctx.built /\ ctx.map_io
    /\ \E d \in Declared(ctx.module.produces) :
           d.spec = "req" /\ OutputAbsent(d.name)

\* The bare names a list declares, and those of them that are keys of a dict.
BareNames(deps) == {d.name : d \in Declared(deps)}
GivenNames(deps, deps_cfg) == BareNames(deps) \cap DOMAIN deps_cfg

\* C11 as stated: after construction the inputs (values) mapping binds
\* exactly the declared names that the raw configuration has; an absent
\* 'maybe' name has no entry.
C11_AbsentOptionalUnbound ==
    ctx.built
    => (/\ DOMAIN ctx.takes = GivenNames(ctx.module.takes, ctx.config.takes)
        /\ DOMAIN ctx.values = GivenNames(ctx.module.values, ctx.config.values))

\* C11 amended: after construction the inputs (values) mapping binds every
\* declared name; a name absent from the raw configuration is bound to what
\* the resolution scope makes of None.
C11_AbsentOptionalBoundToNone ==
    ctx.built
    => (/\ DOMAIN ctx.takes = BareNames(ctx.module.takes)
        /\ DOMAIN ctx.values = BareNames(ctx.module.values)
        /\ \A n \in BareNames(ctx.module.takes) \ DOMAIN ctx.config.takes :
               ctx.takes[n] = resolve(None)
        /\ \A n \in BareNames(ctx.module.values) \ DOMAIN ctx.config.values :
               ctx.values[n] = resolve(None))

C11_Witness ==
    /\ ctx.built
    /\ \E d \in Declared(ctx.module.takes) :
           /\ d.spec = "maybe" /\ d.name \notin DOMAIN ctx.config.takes
           /\ d.name \in DOMAIN ctx.takes
    /\ \E d \in Declared(ctx.module.values) :
           /\ d.spec = "maybe" /\ d.name \notin DOMAIN ctx.config.values
           /\ d.name \in DOMAIN ctx.values

\* C12: a declared output that both config['produces'] and map_io give is
\* bound to the resolved explicit path; one that only map_io gives is bound
\* to the resolved default.
C12_ExplicitOutputWins ==
    ctx.built
    => \A n \in BareNames(ctx.module.produces) :
           /\ (n \in DOMAIN ctx.config.produces /\ n \in DOMAIN ctx.mapped)
              => ctx.outputs[n] = resolve(ctx.config.produces[n])
           /\ (n \notin DOMAIN ctx.config.produces /\ n \in DOMAIN ctx.mapped)
              => ctx.outputs[n] = resolve(ctx.mapped[n])

C12_Witness ==
    /\ ctx.built
    /\ \E n \in BareNames(ctx.module.produces) :
           /\ n \in DOMAIN ctx.config.produces /\ n \in DOMAIN ctx.mapped
           /\ ctx.config.produces[n] # ctx.mapped[n]
    /\ \E n \in BareNames(ctx.module.produces) :
           n \notin DOMAIN ctx.config.produces /\ n \in DOMAIN ctx.mapped

\* C13: is_output_explicit(name) of a declared output returns True when
\* config['produces'] has the name and False, without raising, when not.
C13_IsOutputExplicitTotal ==
    reply.op = "is_output_explicit"
    => reply.ret = IF reply.arg \in DOMAIN ctx.config.produces
                   THEN "True" ELSE "False"

\* C14: get_mod_metadata returns one entry per declared output's bare name:
\* the module's description where it documents one, and otherwise one fixed
\* sentinel, whether the description mapping lacks the output or the module
\* has no description mapping.
NoDescription == "<no description>"
Documented(module, n) ==
    module.has_meta /\ n \in DOMAIN module.prod_meta /\ module.prod_meta[n] # ""

C14_OneSentinel ==
    reply.op = "get_mod_metadata"
    => /\ DOMAIN reply.ret = BareNames(reply.arg.produces)
       /\ \A n \in BareNames(reply.arg.produces) :
              reply.ret[n] = IF Documented(reply.arg, n)
                             THEN reply.arg.prod_meta[n]
                             ELSE NoDescription

-----------------------------------------------------------------------------
(* Directories, vanished paths, and the two tables.                        *)

\* C15: for a path that is a directory at each call, the consumer's first
\* update returns True and its later updates return False with status
\* 'same', whatever lies beneath the directory at either call.
C15_DirectoryFingerprintFixed ==
    (last.op = "update" /\ last.obj.kind = "dir")
    => /\ last.prev = Unseen
          => (last.ret = "True" /\ LastStatus = "changed")
       /\ last.prev.kind = "dir"
          => (last.ret = "False" /\ LastStatus = "same")

C15_Witness ==
    /\ last.op = "update"
    /\ last.prev = Dir /\ last.obj = DirOf(<<1>>)
    /\ last.ret = "False" /\ LastStatus = "same"

\* C16: when a consumer's update found the path missing, its next update
\* that finds the path there again (a file or a directory, whatever its
\* content) returns True and records 'changed'.
C16_VanishedPathRederived ==
    (/\ last.op = "update"
     /\ last.prev = Missing
     /\ last.obj.kind \in {"file", "dir"})
    => (last.ret = "True" /\ LastStatus = "changed")

-----------------------------------------------------------------------------
(* The two output mappings of a context.                                   *)

UndeclaredGiven == DOMAIN ctx.config.produces \ BareNames(ctx.module.produces)

\* C17 as stated: after construction ctx.produces binds exactly the declared
\* outputs that config['produces'] has, ctx.outputs exactly the declared
\* outputs, and a name config['produces'] has but the module does not declare
\* is in neither.
C17_OnlyDeclaredOutputsBound ==
    ctx.built
    => /\ DOMAIN ctx.produces =
              GivenNames(ctx.module.produces, ctx.config.produces)
       /\ DOMAIN ctx.outputs = BareNames(ctx.module.produces)
       /\ \A n \in UndeclaredGiven :
              n \notin DOMAIN ctx.produces /\ n \notin DOMAIN ctx.outputs

\* C17 amended: after construction ctx.produces binds exactly the names
\* config['produces'] has, declared or not, each to its resolved value;
\* ctx.outputs binds exactly the declared outputs; a name the module does not
\* declare is in ctx.produces and not in ctx.outputs.
C17_ConfiguredOutputsBound ==
    ctx.built
    => /\ DOMAIN ctx.produces = DOMAIN ctx.config.produces
       /\ \A n \in DOMAIN ctx.config.produces :
              ctx.produces[n] = resolve(ctx.config.produces[n])
       /\ DOMAIN ctx.outputs = BareNames(ctx.module.produces)
       /\ \A n \in UndeclaredGiven :
              n \in DOMAIN ctx.produces /\ n \notin DOMAIN ctx.outputs

C17_Witness ==
    /\ ctx.built
    /\ UndeclaredGiven # {}
    /\ BareNames(ctx.module.produces) \ DOMAIN ctx.config.produces # {}
    /\ GivenNames(ctx.module.produces, ctx.config.produces) # {}

-----------------------------------------------------------------------------
(* get_status and update on the two tables.                                *)

\* C18: a get_status call leaves the fingerprint table and the status table
\* as they were, so the updates that follow it return what they would have
\* returned without it.
C18_GetStatusIsPure ==
    [][last'.op = "get_status" => (hashes' = hashes /\ status' = status)]_vars

C18_Witness ==
    /\ last.op = "get_status"
    /\ last.ret = "changed"
    /\ \E pc \in Pairs : ~HasStatus(status, pc)

\* C19: right after update(path, consumer) returns, the pair's status is
\* 'same' exactly when the call returned False; when it returned True the
\* status is 'changed' if the path was there and 'untracked' if it was
\* missing.
C19_ReturnAgreesWithStatus ==
    (last.op = "update" /\ Returned(last.ret))
    => /\ LastStatus = "same" <=> last.ret = "False"
       /\ last.ret = "True"
          => LastStatus = IF last.obj.kind = "missing"
                          THEN "untracked" ELSE "changed"

C19_Witness ==
    /\ last.op = "update"
    /\ last.ret = "True"
    /\ last.obj = Missing
    /\ last.prev.kind = "file"
    /\ LastStatus = "untracked"

\* C20: after any sequence of update calls on a freshly constructed cache,
\* every pair that has a status has a fingerprint, and no path of either
\* table has an empty dict of consumers.
C20_TablesWellFormed ==
    /\ hashes.t = "dict"
    /\ \A path \in DOMAIN status : \A consumer \in DOMAIN status[path] :
           HasHash(hashes, <<path, consumer>>)
    /\ \A path \in DOMAIN status : DOMAIN status[path] # {}
    /\ \A path \in DOMAIN hashes.v : DOMAIN hashes.v[path] # {}

C20_Witness ==
    /\ last.op = "update" /\ last.obj = Missing
    /\ last.path \notin DOMAIN status
    /\ last.path \notin DOMAIN hashes.v
    /\ last.prev.kind = "file"
    /\ \E path \in DOMAIN status : path \in DOMAIN hashes.v

-----------------------------------------------------------------------------
(* The inspector.                                                          *)

\* The entry `entry` has exactly the bare names of the list `deps`, each
\* tagged with the qualifier its declared name decodes to.
Describes(entry, deps) ==
    /\ DOMAIN entry = BareNames(deps)
    /\ \A d \in Declared(deps) : entry[d.name]["qualifier"] = d.spec

\* C21: in the module-information dictionary 'takes' describes the declared
\* inputs, 'produces' the declared outputs and 'values' the declared
\* configuration values.
C21_EachListUnderItsKey ==
    reply.op = "_get_module_info_dict"
    => /\ Describes(reply.ret.takes, reply.arg.takes)
       /\ Describes(reply.ret.produces, reply.arg.produces)
       /\ Describes(reply.ret.values, reply.arg.values)

\* The part of C21 the code keeps: 'takes' and 'produces' describe their
\* own lists.
C21_TakesAndProducesDescribed ==
    reply.op = "_get_module_info_dict"
    => /\ Describes(reply.ret.takes, reply.arg.takes)
       /\ Describes(reply.ret.produces, reply.arg.produces)

====
